---- MODULE Spec2Model ----
(***************************************************************************)
(* Model of the API-gateway token authorizer (package authorize):          *)
(* getToken, Handler, getUserPermissions and the two-tier AuthCache.        *)
(* Strings that the code inspects character by character are sequences of  *)
(* one-character strings; opaque texts (messages, ARNs) are TLA+ strings.   *)
(***************************************************************************)
EXTENDS Integers, Sequences, FiniteSets, TLC

None == "none"

(***************************************************************************)
(* Bounds of the model.                                                    *)
(***************************************************************************)
\* longest tail appended to a header prefix when enumerating AuthorizationToken
MaxTail == 2
\* the clock stops advancing once it has reached this many seconds
MaxSeconds == 900
\* the clock's sub-second part stays at or below this many nanoseconds
MaxNanos == 50
\* the two clock increments the environment may take
TickSeconds == 900
TickNanos == 50

(***************************************************************************)
(* Program constants.                                                      *)
(***************************************************************************)
\* time.Now().Add(1000 * 900 * time.Millisecond): 900 seconds
TTLSeconds == 900
\* timestampLayout has seven fractional digits: one unit is 100 ns
LayoutUnitNanos == 100

(***************************************************************************)
(* strings, regexp: the library functions the code calls, on sequences of  *)
(* characters.                                                             *)
(***************************************************************************)
\* unicode.IsSpace, restricted to the characters of the model
IsSpace(c) == c \in {" ", "\t", "\n"}

RECURSIVE FieldsAcc(_, _, _)
FieldsAcc(s, cur, acc) ==
    IF Len(s) = 0
    THEN (IF Len(cur) = 0 THEN acc ELSE Append(acc, cur))
    ELSE IF IsSpace(Head(s))
         THEN FieldsAcc(Tail(s), <<>>, IF Len(cur) = 0 THEN acc ELSE Append(acc, cur))
         ELSE FieldsAcc(Tail(s), Append(cur, Head(s)), acc)

\* strings.Fields(s): the maximal runs of non-space characters
Fields(s) == FieldsAcc(s, <<>>, <<>>)

RECURSIVE SplitAcc(_, _, _, _)
SplitAcc(s, sep, cur, acc) ==
    IF Len(s) = 0
    THEN Append(acc, cur)
    ELSE IF Head(s) = sep
         THEN SplitAcc(Tail(s), sep, <<>>, Append(acc, cur))
         ELSE SplitAcc(Tail(s), sep, Append(cur, Head(s)), acc)

\* strings.Split(s, sep) for a one-character separator
Split(s, sep) == SplitAcc(s, sep, <<>>, <<>>)

RECURSIVE Join(_, _)
\* strings.Join(elems, sep) for a one-character separator
Join(elems, sep) ==
    IF Len(elems) = 0 THEN <<>>
    ELSE IF Len(elems) = 1 THEN elems[1]
    ELSE elems[1] \o <<sep>> \o Join(Tail(elems), sep)

\* strings.Contains(s, substr)
Contains(s, substr) ==
    \E i \in 1..(Len(s) - Len(substr) + 1) :
        SubSeq(s, i, i + Len(substr) - 1) = substr

BearerSpace == <<"B", "e", "a", "r", "e", "r", " ">>

\* regexp.MatchString("Bearer (.*)", s): the pattern is not anchored and
\* (.*) matches the empty string, so it matches iff s holds "Bearer " anywhere
MatchBearer(s) == Contains(s, BearerSpace)

(***************************************************************************)
(* Configuration (AuthTokenConfig) of the execution environment.           *)
(***************************************************************************)
\* Authorizer.Config.TokenAudience
TokenAudience == "api"
\* Authorizer.Config.Issuer
Issuer == <<"i", "/">>
\* the marker of the identity provider's own user store
UserMarker == <<"a", "u", "t", "h", "0">>

(***************************************************************************)
(* getToken                                                                *)
(***************************************************************************)
ErrTypeText == "expected 'event.Type' parameter to have value 'TOKEN'"
ErrEmptyText == "expected 'event.AuthorizationToken' parameter to not be empty"
ErrMatchText == "invalid authorization token - The provided 'Authorization' header does not match 'Bearer .*'"

\* the element getToken returns: tokenParts[1] (Go indexes from 0)
TokenPart(tokenParts) == tokenParts[2]

\* getToken(event): token and err as returned, or a run-time panic
\* (index out of range) when strings.Fields yields fewer than two parts
getToken(event) ==
    IF event.Type # "TOKEN"
    THEN [token |-> <<>>, err |-> ErrTypeText, panic |-> FALSE]
    ELSE IF Len(event.AuthorizationToken) <= 0
    THEN [token |-> <<>>, err |-> ErrEmptyText, panic |-> FALSE]
    ELSE IF ~MatchBearer(event.AuthorizationToken)
    THEN [token |-> <<>>, err |-> ErrMatchText, panic |-> FALSE]
    ELSE LET tokenParts == Fields(event.AuthorizationToken)
         IN  IF Len(tokenParts) < 2
             THEN [token |-> <<>>, err |-> "nil", panic |-> TRUE]
             ELSE [token |-> TokenPart(tokenParts), err |-> "nil", panic |-> FALSE]

(***************************************************************************)
(* getDenyResponse, getSuccessResponse                                     *)
(***************************************************************************)
\* variant: the statement covers every resource
PolicyDocumentWildcard(effect, methodArn) ==
    [Version   |-> "2012-10-17",
     Statement |-> << [Action   |-> <<"execute-api:Invoke">>,
                       Effect   |-> effect,
                       Resource |-> <<"*">>] >>]

PolicyDocument(effect, methodArn) ==
    [Version   |-> "2012-10-17",
     Statement |-> << [Action   |-> <<"execute-api:Invoke">>,
                       Effect   |-> effect,
                       Resource |-> <<methodArn>>] >>]

\* variant: the Deny response never names a principal
getDenyResponseAnonymous(principalId, methodArn, message) ==
    [PrincipalID    |-> <<>>,
     PolicyDocument |-> PolicyDocument("Deny", methodArn),
     Context        |-> [ErrorMessage |-> message]]

getDenyResponse(principalId, methodArn, message) ==
    [PrincipalID    |-> principalId,
     PolicyDocument |-> PolicyDocument("Deny", methodArn),
     Context        |-> [ErrorMessage |-> message]]

getSuccessResponse(principalId, methodArn, context) ==
    [PrincipalID    |-> principalId,
     PolicyDocument |-> PolicyDocument("Allow", methodArn),
     Context        |-> context]

Effect(response) == response.PolicyDocument.Statement[1].Effect

(***************************************************************************)
(* Handler, up to the point where a user-type subject is resolved.         *)
(* parsed is what jwt.Parse returned for the token: err is the set of      *)
(* sentinel errors errors.Is finds in the returned error ({} for nil),     *)
(* and the claims are tagged values: absent, a string ("str"), a list of   *)
(* strings ("list"), a list with a non-string element ("badlist"), or      *)
(* another JSON type ("num"); v is the list of the strings the claim holds.*)
(* A request, parsed token or response that an invocation may not have yet *)
(* is a sequence: <<>> for none, <<x>> for x.                              *)
(***************************************************************************)
MsgUnauthorized == "Unauthorized"
MsgMalformed == "Unauthorized: Malformed Token"
MsgSignature == "Unauthorized: Invalid Signature"
MsgExpired == "Unauthorized: Expired Token"
MsgDecode == "Unauthorized: Unable to decode token"
MsgAudMissing == "Unauthorized: Token 'aud' claim missing registered audience"
MsgAudInvalid == "Unauthorized: Token missing 'aud' claim or claim is invalid"
MsgNotValid == "Unauthorized: Token failed validation"
MsgMethod == "Unauthorized: Token uses invalid signing method"
MsgAlg == "Unauthorized: Token missing required 'alg' claim"
MsgIss == "Unauthorized: Token uses invalid 'iss' claim"
MsgSub == "Unauthorized: Token missing required 'sub' claim"
MsgScope == "Unauthorized: Token missing required 'roles' claim"

\* variant: the switch tests ErrTokenExpired alone
ParseErrorMessageExpiredOnly(err) ==
    IF "ErrTokenMalformed" \in err THEN MsgMalformed
    ELSE IF "ErrTokenSignatureInvalid" \in err THEN MsgSignature
    ELSE IF "ErrTokenExpired" \in err THEN MsgExpired
    ELSE MsgDecode

\* the switch on the error of jwt.Parse
ParseErrorMessage(err) ==
    IF "ErrTokenMalformed" \in err THEN MsgMalformed
    ELSE IF "ErrTokenSignatureInvalid" \in err THEN MsgSignature
    ELSE IF "ErrTokenExpired" \in err \/ "ErrTokenNotValidYet" \in err THEN MsgExpired
    ELSE MsgDecode

\* MapClaims.GetAudience(): the values, and whether it returned an error.
\* An absent claim or one of another type yields no values and no error.
GetAudience(aud) ==
    IF aud.k = "str" THEN [values |-> aud.v, err |-> FALSE]
    ELSE IF aud.k = "list" THEN [values |-> aud.v, err |-> FALSE]
    ELSE IF aud.k = "badlist" THEN [values |-> <<>>, err |-> TRUE]
    ELSE [values |-> <<>>, err |-> FALSE]

\* variant: only the first audience is compared
AudienceLocatedFirst(audClaims) ==
    Len(audClaims) > 0 /\ audClaims[1] = TokenAudience

\* the loop over audClaims
AudienceLocated(audClaims) ==
    \E i \in 1..Len(audClaims) : audClaims[i] = TokenAudience

\* decodedToken.Method.(*jwt.SigningMethodRSA)
IsRSAMethod(alg) == alg \in {"RS256", "RS384", "RS512"}

\* variant: every subject is taken for one of the user store
IsAppTokenNever(principalId) == FALSE

\* strings.Contains(principalId, "auth0") negated
IsAppToken(principalId) == ~Contains(principalId, UserMarker)

\* variant: the scope is cut at every run of white space
AppPermissionsFields(scopes) == Join(Fields(scopes), ",")

\* the app-token branch: the permissions entry of the context
AppPermissions(scopes) == Join(Split(scopes, " "), ",")

Return(response) == [kind |-> "return", resp |-> <<response>>, principalId |-> <<>>]
Panic == [kind |-> "panic", resp |-> <<>>, principalId |-> <<>>]
Resolve(principalId) == [kind |-> "resolve", resp |-> <<>>, principalId |-> principalId]

\* Handler from its entry to its return, its panic, or the start of
\* getUserPermissions(principalId)
HandlerDecide(req, parsed) ==
    LET got == getToken(req)
        arn == req.MethodArn
        aud == GetAudience(parsed.aud)
    IN  IF got.panic THEN Panic
        ELSE IF got.err # "nil" THEN Return(getDenyResponse(<<>>, arn, MsgUnauthorized))
        ELSE IF parsed.err # {} THEN Return(getDenyResponse(<<>>, arn, ParseErrorMessage(parsed.err)))
        ELSE IF aud.err THEN Return(getDenyResponse(<<>>, arn, MsgAudInvalid))
        ELSE IF ~AudienceLocated(aud.values) THEN Return(getDenyResponse(<<>>, arn, MsgAudMissing))
        ELSE IF ~parsed.valid THEN Return(getDenyResponse(<<>>, arn, MsgNotValid))
        ELSE IF ~IsRSAMethod(parsed.alg) THEN Return(getDenyResponse(<<>>, arn, MsgMethod))
        ELSE IF parsed.alg = None THEN Return(getDenyResponse(<<>>, arn, MsgAlg))
        ELSE IF parsed.iss.k # "str" THEN Panic
        ELSE IF ~Contains(parsed.iss.v[1], Issuer) THEN Return(getDenyResponse(<<>>, arn, MsgIss))
        ELSE IF parsed.sub.k # "str" THEN Return(getDenyResponse(<<>>, arn, MsgSub))
        ELSE IF parsed.scope.k # "str" THEN Return(getDenyResponse(parsed.sub.v[1], arn, MsgScope))
        ELSE IF IsAppToken(parsed.sub.v[1])
             THEN Return(getSuccessResponse(parsed.sub.v[1], arn,
                     [requesterId |-> parsed.sub.v[1],
                      permissions |-> AppPermissions(parsed.scope.v[1])]))
             ELSE Resolve(parsed.sub.v[1])

(***************************************************************************)
(* Time.  An instant is seconds and nanoseconds since the start of the     *)
(* model's clock.                                                          *)
(***************************************************************************)
Instant(sec, nsec) == [sec |-> sec, nsec |-> nsec]

\* t.After(u)
After(t, u) == t.sec > u.sec \/ (t.sec = u.sec /\ t.nsec > u.nsec)

\* time.Now().Add(1000 * 900 * time.Millisecond)
Expiry(t) == Instant(t.sec + TTLSeconds, t.nsec)

\* variant: the fraction of a second is rounded up to the next unit
FormatTimestampRoundedUp(t) ==
    [sec |-> t.sec, frac7 |-> (t.nsec + LayoutUnitNanos - 1) \div LayoutUnitNanos]

\* value.Expiration.UTC().Format(timestampLayout): the text carries the
\* seconds and seven fractional digits, the rest of the nanoseconds is cut
FormatTimestamp(t) == [sec |-> t.sec, frac7 |-> t.nsec \div LayoutUnitNanos]

\* attributevalue.UnmarshalMap into time.Time: time.Parse of the text
ParseTimestamp(text) == Instant(text.sec, text.frac7 * LayoutUnitNanos)

(***************************************************************************)
(* The values the environment supplies.                                    *)
(***************************************************************************)
Procs == {"p1", "p2"}

UserA == <<"a", "u", "t", "h", "0", "|", "a">>
UserB == <<"a", "u", "t", "h", "0", "|", "b">>
AppC == <<"c", "@", "c">>

\* the keys of both cache tiers: the user-type subjects of the model
Subjects == {UserA, UserB}

\* the permission_name lists the upstream permissions endpoint may answer
UpstreamLists == { << <<"r">> >>, << <<"w">>, <<"r">> >> }

\* err.Error() of the three failures of the upstream call
UpstreamErrors ==
    {"transport error",
     "error retrieving user permissions: 500",
     "error parsing user permissions: unexpected end of JSON input"}

Str(v) == [k |-> "str", v |-> <<v>>]
Absent == [k |-> "absent", v |-> <<>>]
Num == [k |-> "num", v |-> <<>>]

\* jwt.Parse returned a token and a nil error
Verified(aud, iss, sub, scope, alg) ==
    [err |-> {}, valid |-> TRUE, alg |-> alg,
     aud |-> aud, iss |-> iss, sub |-> sub, scope |-> scope]

\* jwt.Parse returned an error
Rejected(err) ==
    [err |-> err, valid |-> FALSE, alg |-> "RS256",
     aud |-> Absent, iss |-> Absent, sub |-> Absent, scope |-> Absent]

\* nothing was parsed: getToken did not return a token
NotParsed == Rejected({"not parsed"})

Request(type, token, arn) ==
    [Type |-> type, AuthorizationToken |-> token, MethodArn |-> arn]

GoodHeader == BearerSpace \o <<"a">>

\* the invocations of the full system: the ones that resolve a user-type
\* subject, and one of each other kind of outcome
Inputs ==
    {[req |-> Request("TOKEN", GoodHeader, "arn:1"),
      parsed |-> Verified(Str(TokenAudience), Str(Issuer), Str(sub), Str(<<"r">>), "RS256")]
        : sub \in Subjects \cup {AppC}}
    \cup {[req |-> Request("TOKEN", GoodHeader, "arn:1"),
           parsed |-> Verified(Str(TokenAudience), Absent, Str(UserA), Str(<<"r">>), "RS256")],
          [req |-> Request("TOKEN", GoodHeader, "arn:1"),
           parsed |-> Verified(Str(TokenAudience), Str(Issuer), Str(AppC), Absent, "RS256")],
          [req |-> Request("TOKEN", GoodHeader, "arn:1"),
           parsed |-> Rejected({"ErrTokenInvalidClaims", "ErrTokenExpired"})],
          [req |-> Request("TOKEN", BearerSpace, "arn:1"), parsed |-> NotParsed],
          [req |-> Request("REQUEST", GoodHeader, "arn:1"), parsed |-> NotParsed]}

(***************************************************************************)
(* State.                                                                  *)
(***************************************************************************)
VARIABLES
    now,          \* the clock that time.Now() reads
    cachedToken,  \* the service credential slot (None: nil)
    cacheMap,     \* the ephemeral tier: the map from subject to AuthCacheValue
    table,        \* the durable tier: the items, subject to AuthCacheValueEntity
    inv,          \* per invocation: Handler and getUserPermissions
    fetch,        \* per invocation: the goroutine of the upstream call
    chans,        \* per invocation: permissionsChan and errChan of getUserPermissions
    returned,     \* history: per subject, the value cached by the last fetch whose
                  \* invocation has returned in this environment
    putLog        \* history: per subject, the value of the last PutItem that succeeded

vars == <<now, cachedToken, cacheMap, table, inv, fetch, chans, returned, putLog>>

IdleInv ==
    [pc |-> "idle", req |-> <<>>, parsed |-> <<>>, resp |-> <<>>,
     principalId |-> <<>>, isAppToken |-> TRUE, authCache |-> <<>>, tier |-> None,
     checkedAt |-> <<>>, durableReads |-> 0, upstreamCalls |-> 0,
     dispatched |-> FALSE, served |-> [permissions |-> <<>>, err |-> "nil"],
     tryGetErr |-> "nil"]

\* the goroutine of the upstream call: err is the error it met, puts the
\* number of PutItem calls it made, putErr the error TryPut returned, sends
\* the number of values it has sent on its channels
IdleFetch ==
    [pc |-> "none", permissionsArray |-> <<>>, value |-> <<>>,
     err |-> "nil", puts |-> 0, putErr |-> "nil", sends |-> 0]

EmptyChans == [permissionsChan |-> <<>>, errChan |-> <<>>]

\* make(chan []string, 1), make(chan error, 1): the capacity of each channel
ChanCap == 1

\* what the token endpoint answers to the client-credentials exchange
AcquireOutcomes == {"ok", "transport error", "status 500", "undecodable body"}

\* acquireToken: the credential slot it leaves, and the error it returns
acquireToken(outcome) ==
    IF outcome = "ok"
    THEN [cachedToken |-> "service-token", err |-> "nil"]
    ELSE [cachedToken |-> None, err |-> outcome]

\* InitLambda, line 82: acquireToken(&authConfig) is called as a statement,
\* so its error is dropped, initialization goes on and Authorizer is
\* installed; the result is the credential slot of the new environment
InitLambda(outcome) == acquireToken(outcome).cachedToken

\* InitLambda: the state of a new execution environment.
Init ==
    /\ now = Instant(0, 0)
    /\ cachedToken \in {InitLambda(outcome) : outcome \in AcquireOutcomes}
    /\ cacheMap = <<>>
    /\ table = <<>>
    /\ inv = [p \in Procs |-> IdleInv]
    /\ fetch = [p \in Procs |-> IdleFetch]
    /\ chans = [p \in Procs |-> EmptyChans]
    /\ returned = <<>>
    /\ putLog = <<>>

(***************************************************************************)
(* AuthCache.TryGet and AuthCache.TryPut, one definition per tier.         *)
(***************************************************************************)
AuthCacheValue(permissions, expiration) ==
    [Permissions |-> permissions, Expiration |-> expiration]

AuthCacheValueEntity(authId, value) ==
    [PK |-> authId, SK |-> authId,
     Permissions |-> value.Permissions,
     Expiration |-> FormatTimestamp(value.Expiration)]

\* attributevalue.UnmarshalMap(response.Item, &authIdValue)
UnmarshalItem(item) ==
    AuthCacheValue(item.Permissions, ParseTimestamp(item.Expiration))

\* a *AuthCacheValue is a sequence: <<>> for nil, <<v>> for a pointer to v
Nil == <<>>
Ptr(v) == <<v>>

\* variant: any entry that was found is used, whatever its expiration
FreshAny(ptr, t) == Len(ptr) > 0

\* authCache != nil && authCache.Expiration.After(time.Now())
Fresh(ptr, t) == Len(ptr) > 0 /\ After(ptr[1].Expiration, t)

\* a Go map or a table is a function on the keys it holds
Store(map, key, value) ==
    [k \in DOMAIN map \cup {key} |-> IF k = key THEN value ELSE map[k]]

\* TryGet, first tier: val, ok := cacheMap[authId]; ok && val.Expiration.After(time.Now())
EphemeralHit(map, authId, t) ==
    authId \in DOMAIN map /\ After(map[authId].Expiration, t)

\* TryGet, second tier: what GetItem and UnmarshalMap return when the read succeeds
DurableGet(tbl, authId) ==
    IF authId \notin DOMAIN tbl THEN Nil ELSE Ptr(UnmarshalItem(tbl[authId]))

\* variant: TryPut leaves the map as it is
PutEphemeralDropped(map, authId, value) == map

\* TryPut, first tier: cacheMap[authId] = *value
PutEphemeral(map, authId, value) == Store(map, authId, value)

\* variant: PutItem adds the new names to those of the item it finds
PutDurableMerged(tbl, authId, value) ==
    Store(tbl, authId,
          AuthCacheValueEntity(authId,
              IF authId \in DOMAIN tbl
              THEN AuthCacheValue(tbl[authId].Permissions \o value.Permissions,
                                  value.Expiration)
              ELSE value))

\* TryPut, second tier: PutItem of the marshalled entity
PutDurable(tbl, authId, value) ==
    Store(tbl, authId, AuthCacheValueEntity(authId, value))

(***************************************************************************)
(* Actions.                                                                *)
(***************************************************************************)
\* a panic ends the process: nothing runs until a new environment starts
Crashed == \E p \in Procs : inv[p].pc = "panic"

Set(p, f) == [inv EXCEPT ![p] = f]

\* Handler runs on req, for whose token jwt.Parse answers parsed
HandlerRun(p, req, parsed) ==
    /\ LET d == HandlerDecide(req, parsed)
       IN  inv' = Set(p, [IdleInv EXCEPT
                     !.pc = IF d.kind = "return" THEN "done"
                            ELSE IF d.kind = "panic" THEN "panic" ELSE "tryget",
                     !.req = <<req>>,
                     !.parsed = <<parsed>>,
                     !.resp = d.resp,
                     !.principalId = d.principalId,
                     !.isAppToken = (d.kind # "resolve")])
    /\ UNCHANGED <<now, cachedToken, cacheMap, table, fetch, chans, returned, putLog>>

\* an invocation with one of the requests of Inputs
HandlerCall(p) ==
    /\ ~Crashed
    /\ inv[p].pc = "idle"
    /\ \E in \in Inputs : HandlerRun(p, in.req, in.parsed)

\* the goroutines other than p's that are inside cacheMap[authId] = *value
MapWriters(p) == {q \in Procs \ {p} : fetch[q].pc = "mapwrite"}

\* val, ok := cacheMap[authId] and the test of line 36, on the map m
ReadEphemeral(p, m) ==
    IF EphemeralHit(m, inv[p].principalId, now)
    THEN [inv[p] EXCEPT !.pc = "check",
                        !.authCache = Ptr(m[inv[p].principalId]),
                        !.tier = "ephemeral"]
    ELSE [inv[p] EXCEPT !.pc = "getitem"]

\* TryGet, authCache.go 35-38.  The map is not synchronized: a read that
\* runs while another goroutine assigns to the map is a data race, which the
\* Go runtime may end with "fatal error: concurrent map read and map write",
\* and which otherwise sees the map without or with the assignment.
TryGetEphemeral(p) ==
    /\ ~Crashed
    /\ inv[p].pc = "tryget"
    /\ \/ inv' = Set(p, ReadEphemeral(p, cacheMap))
       \/ \E q \in MapWriters(p) :
             \/ inv' = Set(p, [inv[p] EXCEPT !.pc = "panic"])
             \/ inv' = Set(p, ReadEphemeral(p,
                           PutEphemeral(cacheMap, inv[q].principalId, fetch[q].value[1])))
    /\ UNCHANGED <<now, cachedToken, cacheMap, table, fetch, chans, returned, putLog>>

\* the error TryGet returns when GetItem fails, authCache.go 51-53
ErrGetItemText == "unable to retrieve cache value with id: store error"

\* TryGet, authCache.go 40-64: the read may fail, and its error is dropped
\* by getUserPermissions
TryGetDurable(p) ==
    /\ ~Crashed
    /\ inv[p].pc = "getitem"
    /\ \E readOk \in BOOLEAN :
         inv' = Set(p, [inv[p] EXCEPT
                   !.pc = "check",
                   !.authCache = IF readOk THEN DurableGet(table, inv[p].principalId) ELSE Nil,
                   !.tier = IF readOk /\ inv[p].principalId \in DOMAIN table THEN "durable" ELSE None,
                   !.tryGetErr = IF readOk THEN "nil" ELSE ErrGetItemText,
                   !.durableReads = @ + 1])
    /\ UNCHANGED <<now, cachedToken, cacheMap, table, fetch, chans, returned, putLog>>

\* getUserPermissions 279-285: serve the entry, or start the fetch goroutine
CheckFresh(p) ==
    /\ ~Crashed
    /\ inv[p].pc = "check"
    /\ IF Fresh(inv[p].authCache, now)
       THEN /\ inv' = Set(p, [inv[p] EXCEPT
                         !.pc = "resolved",
                         !.checkedAt = <<now>>,
                         !.served = [permissions |-> Join(inv[p].authCache[1].Permissions, ","),
                                     err |-> "nil"]])
            /\ UNCHANGED fetch
       ELSE /\ inv' = Set(p, [inv[p] EXCEPT !.pc = "recheck", !.checkedAt = <<now>>,
                                            !.dispatched = TRUE])
            /\ fetch' = [fetch EXCEPT ![p] = [IdleFetch EXCEPT !.pc = "http"]]
    /\ UNCHANGED <<now, cachedToken, cacheMap, table, chans, returned, putLog>>

\* getUserPermissions 336-339: the same local authCache against a new time.Now()
Recheck(p) ==
    /\ ~Crashed
    /\ inv[p].pc = "recheck"
    /\ IF Fresh(inv[p].authCache, now)
       THEN inv' = Set(p, [inv[p] EXCEPT
                      !.pc = "resolved",
                      !.served = [permissions |-> Join(inv[p].authCache[1].Permissions, ","),
                                  err |-> "nil"]])
       ELSE inv' = Set(p, [inv[p] EXCEPT !.pc = "wait"])
    /\ UNCHANGED <<now, cachedToken, cacheMap, table, fetch, chans, returned, putLog>>

\* the goroutine, 286-326: the GET on the permissions endpoint.
\* *cachedToken panics when the slot is nil.
FetchCall(p) ==
    /\ ~Crashed
    /\ fetch[p].pc = "http"
    /\ IF cachedToken = None
       THEN /\ inv' = Set(p, [inv[p] EXCEPT !.pc = "panic"])
            /\ UNCHANGED <<fetch, chans>>
       ELSE /\ inv' = Set(p, [inv[p] EXCEPT !.upstreamCalls = @ + 1])
            /\ \/ \E e \in UpstreamErrors :
                    /\ Len(chans[p].errChan) < ChanCap
                    /\ chans' = [chans EXCEPT ![p].errChan = Append(@, e)]
                    /\ fetch' = [fetch EXCEPT ![p].pc = "done", ![p].err = e,
                                              ![p].sends = @ + 1]
               \/ \E list \in UpstreamLists :
                    /\ fetch' = [fetch EXCEPT ![p].pc = "put", ![p].permissionsArray = list]
                    /\ UNCHANGED chans
    /\ UNCHANGED <<now, cachedToken, cacheMap, table, returned, putLog>>

\* the goroutine, 328-331: the value is built with time.Now() and TryPut
\* is entered; the assignment to the map has begun
FetchTryPut(p) ==
    /\ ~Crashed
    /\ fetch[p].pc = "put"
    /\ fetch' = [fetch EXCEPT
                    ![p].pc = "mapwrite",
                    ![p].value = Ptr(AuthCacheValue(fetch[p].permissionsArray, Expiry(now)))]
    /\ UNCHANGED <<now, cachedToken, cacheMap, table, inv, chans, returned, putLog>>

\* authCache.go 68: cacheMap[authId] = *value takes effect.  When another
\* goroutine is inside the same assignment the two writes race: the Go
\* runtime may end the process with "fatal error: concurrent map writes",
\* the write may land whole, or a multi-word value may land torn, with the
\* Permissions of one write and the Expiration of the other.
FetchPutEphemeral(p) ==
    /\ ~Crashed
    /\ fetch[p].pc = "mapwrite"
    /\ \/ /\ cacheMap' = PutEphemeral(cacheMap, inv[p].principalId, fetch[p].value[1])
          /\ fetch' = [fetch EXCEPT ![p].pc = "putitem"]
          /\ UNCHANGED inv
       \/ \E q \in MapWriters(p) :
             \/ /\ inv' = Set(p, [inv[p] EXCEPT !.pc = "panic"])
                /\ UNCHANGED <<cacheMap, fetch>>
             \/ /\ cacheMap' = PutEphemeral(cacheMap, inv[p].principalId,
                                    AuthCacheValue(fetch[p].value[1].Permissions,
                                                   fetch[q].value[1].Expiration))
                /\ fetch' = [fetch EXCEPT ![p].pc = "putitem"]
                /\ UNCHANGED inv
    /\ UNCHANGED <<now, cachedToken, table, chans, returned, putLog>>

\* the error TryPut returns when PutItem fails, authCache.go 88-90
ErrPutItemText == "unable to store authId cache value: store error"

\* variant: the goroutine reports the error of TryPut instead of the names
SendPermissionsIfStored(ch, permissionsArray, putErr) ==
    IF putErr = "nil"
    THEN [ch EXCEPT !.permissionsChan = Append(@, permissionsArray)]
    ELSE [ch EXCEPT !.errChan = Append(@, putErr)]

\* variant: the goroutine ends without a send when TryPut failed
SendPermissionsOrNothing(ch, permissionsArray, putErr) ==
    IF putErr = "nil"
    THEN [ch EXCEPT !.permissionsChan = Append(@, permissionsArray)]
    ELSE ch

\* line 333, permissionsChan <- permissionsArray: what TryPut returned is
\* not looked at
SendPermissions(ch, permissionsArray, putErr) ==
    [ch EXCEPT !.permissionsChan = Append(@, permissionsArray)]

\* the goroutine, authCache.go 70-92 and line 333: PutItem is called once
\* and may fail, TryPut's error is dropped, and the permissions are sent
\* either way
FetchPutDurable(p) ==
    /\ ~Crashed
    /\ fetch[p].pc = "putitem"
    /\ Len(chans[p].permissionsChan) < ChanCap
    /\ \E writeOk \in BOOLEAN :
         LET putErr == IF writeOk THEN "nil" ELSE ErrPutItemText
             sent == SendPermissions(chans[p], fetch[p].permissionsArray, putErr)
         IN  /\ table' = IF writeOk
                         THEN PutDurable(table, inv[p].principalId, fetch[p].value[1])
                         ELSE table
             /\ putLog' = IF writeOk
                          THEN Store(putLog, inv[p].principalId, fetch[p].value[1])
                          ELSE putLog
             /\ chans' = [chans EXCEPT ![p] = sent]
             /\ fetch' = [fetch EXCEPT
                            ![p].pc = "done",
                            ![p].puts = @ + 1,
                            ![p].putErr = putErr,
                            ![p].sends = @ + Len(sent.permissionsChan) + Len(sent.errChan)
                                           - Len(chans[p].permissionsChan)
                                           - Len(chans[p].errChan)]
    /\ UNCHANGED <<now, cachedToken, cacheMap, inv, returned>>

\* getUserPermissions 340-345: the select on the two channels
WaitFetch(p) ==
    /\ ~Crashed
    /\ inv[p].pc = "wait"
    /\ \/ /\ Len(chans[p].permissionsChan) > 0
          /\ inv' = Set(p, [inv[p] EXCEPT
                       !.pc = "resolved",
                       !.served = [permissions |-> Join(Head(chans[p].permissionsChan), ","),
                                   err |-> "nil"]])
          /\ chans' = [chans EXCEPT ![p].permissionsChan = Tail(@)]
       \/ /\ Len(chans[p].errChan) > 0
          /\ inv' = Set(p, [inv[p] EXCEPT
                       !.pc = "resolved",
                       !.served = [permissions |-> <<>>, err |-> Head(chans[p].errChan)]])
          /\ chans' = [chans EXCEPT ![p].errChan = Tail(@)]
    /\ UNCHANGED <<now, cachedToken, cacheMap, table, fetch, returned, putLog>>

\* Handler 254-272: the result of getUserPermissions becomes the response
HandlerSelect(p) ==
    /\ ~Crashed
    /\ inv[p].pc = "resolved"
    /\ inv' = Set(p, [inv[p] EXCEPT
                 !.pc = "done",
                 !.resp = IF inv[p].served.err = "nil"
                          THEN <<getSuccessResponse(inv[p].principalId, inv[p].req[1].MethodArn,
                                   [requesterId |-> inv[p].principalId,
                                    permissions |-> inv[p].served.permissions])>>
                          ELSE <<getDenyResponse(inv[p].principalId, inv[p].req[1].MethodArn,
                                   inv[p].served.err)>>])
    /\ UNCHANGED <<now, cachedToken, cacheMap, table, fetch, chans, returned, putLog>>

\* the response has gone to the runtime; the invocation is over
Finish(p) ==
    /\ ~Crashed
    /\ inv[p].pc = "done"
    /\ fetch[p].pc \in {"none", "done"}
    /\ inv' = Set(p, IdleInv)
    /\ fetch' = [fetch EXCEPT ![p] = IdleFetch]
    /\ chans' = [chans EXCEPT ![p] = EmptyChans]
    /\ returned' = IF Len(fetch[p].value) > 0
                   THEN Store(returned, inv[p].principalId, fetch[p].value[1])
                   ELSE returned
    /\ UNCHANGED <<now, cachedToken, cacheMap, table, putLog>>

\* a new execution environment (main, InitLambda): after a crash, or when
\* the platform replaces an idle one.  The durable tier outlives it.
ColdStart ==
    /\ Crashed \/ \A p \in Procs : inv[p].pc = "idle"
    /\ cachedToken' \in {InitLambda(outcome) : outcome \in AcquireOutcomes}
    /\ cacheMap' = <<>>
    /\ inv' = [p \in Procs |-> IdleInv]
    /\ fetch' = [p \in Procs |-> IdleFetch]
    /\ chans' = [p \in Procs |-> EmptyChans]
    /\ returned' = <<>>
    /\ UNCHANGED <<now, table, putLog>>

\* the clock reaches the start of a later second
TickSecondsStep ==
    /\ now.sec + TickSeconds <= MaxSeconds
    /\ now' = Instant(now.sec + TickSeconds, 0)
    /\ UNCHANGED <<cachedToken, cacheMap, table, inv, fetch, chans, returned, putLog>>

\* the clock advances within the second
TickNanosStep ==
    /\ now.nsec + TickNanos <= MaxNanos
    /\ now' = Instant(now.sec, now.nsec + TickNanos)
    /\ UNCHANGED <<cachedToken, cacheMap, table, inv, fetch, chans, returned, putLog>>

\* one step of invocation p other than its start
Step(p) ==
    \/ TryGetEphemeral(p)
    \/ TryGetDurable(p)
    \/ CheckFresh(p)
    \/ Recheck(p)
    \/ FetchCall(p)
    \/ FetchTryPut(p)
    \/ FetchPutEphemeral(p)
    \/ FetchPutDurable(p)
    \/ WaitFetch(p)
    \/ HandlerSelect(p)
    \/ Finish(p)

\* The runtime hands the handler one invocation at a time.
Next ==
    \/ HandlerCall("p1")
    \/ Step("p1")
    \/ ColdStart
    \/ TickSecondsStep
    \/ TickNanosStep

Spec == Init /\ [][Next]_vars

(***************************************************************************)
(* Scheduling.  The Go scheduler keeps running a goroutine that can run:   *)
(* the handler and the goroutine it started are not left waiting for ever  *)
(* while one of their steps is possible.                                   *)
(***************************************************************************)
NextFair ==
    \/ HandlerCall("p1")
    \/ Step("p1")
    \/ TickSecondsStep

SpecFair == Init /\ [][NextFair]_vars /\ WF_vars(Step("p1"))

(***************************************************************************)
(* One invocation after another in one execution environment.  The record  *)
(* of an invocation that has returned is kept while the next one runs, so  *)
(* that what the next one does can be set against how the last one ended.  *)
(***************************************************************************)
\* an invocation with a token of the user-type subject UserA that passes
\* every check of Handler
ResolveCall(p) ==
    /\ ~Crashed
    /\ inv[p].pc = "idle"
    /\ HandlerRun(p, Request("TOKEN", GoodHeader, "arn:1"),
                  Verified(Str(TokenAudience), Str(Issuer), Str(UserA), Str(<<"r">>), "RS256"))

\* the runtime hands the handler a request when no invocation is running
FirstCall(p, q) ==
    /\ inv[q].pc = "idle"
    /\ ResolveCall(p)

\* the runtime hands the handler the next request once p has returned
FollowingCall(q, p) ==
    /\ inv[p].pc = "done"
    /\ ResolveCall(q)

NextSuccessive ==
    \/ FirstCall("p1", "p2")
    \/ Step("p1")
    \/ FollowingCall("p2", "p1")
    \/ Step("p2")
    \/ TickSecondsStep

SpecSuccessive == Init /\ [][NextSuccessive]_vars

(***************************************************************************)
(* Two invocations in one process, each resolving the same user-type       *)
(* subject once: the host hands the handler a second request while the     *)
(* first is still running.                                                 *)
(***************************************************************************)
ConcurrentCall(p) ==
    /\ ~Crashed
    /\ inv[p].pc = "idle"
    /\ HandlerRun(p, Request("TOKEN", GoodHeader, "arn:1"),
                  Verified(Str(TokenAudience), Str(Issuer), Str(UserA), Str(<<"r">>), "RS256"))

NextConcurrent ==
    \/ \E p \in Procs :
          \/ ConcurrentCall(p)
          \/ TryGetEphemeral(p)
          \/ TryGetDurable(p)
          \/ CheckFresh(p)
          \/ Recheck(p)
          \/ FetchCall(p)
          \/ FetchTryPut(p)
          \/ FetchPutEphemeral(p)
          \/ FetchPutDurable(p)
          \/ WaitFetch(p)
          \/ HandlerSelect(p)
    \/ TickNanosStep

SpecConcurrent == Init /\ [][NextConcurrent]_vars

(***************************************************************************)
(* The validation path on its own: every invocation that does not reach    *)
(* getUserPermissions, over a wide set of headers and parsed tokens.       *)
(***************************************************************************)
SeqsUpTo(S, n) == UNION {[1..k -> S] : k \in 0..n}

TailChars == {"a", " ", "\t"}

HeaderPrefixes ==
    {<<>>,
     BearerSpace,
     <<"B", "e", "a", "r", "e", "r">>,
     <<"b", "e", "a", "r", "e", "r", " ">>,
     <<"x">> \o BearerSpace,
     <<"x", " ">> \o BearerSpace,
     <<" ">> \o BearerSpace}

\* the values of event.AuthorizationToken
Headers == {pre \o tail : pre \in HeaderPrefixes, tail \in SeqsUpTo(TailChars, MaxTail)}

\* the errors.Is content of the errors jwt.Parse returns
ParseErrors ==
    {{"ErrTokenMalformed"},
     {"ErrTokenUnverifiable"},
     {"ErrTokenSignatureInvalid"},
     {"ErrTokenInvalidClaims", "ErrTokenExpired"},
     {"ErrTokenInvalidClaims", "ErrTokenNotValidYet"},
     {"ErrTokenInvalidClaims", "ErrTokenExpired", "ErrTokenNotValidYet"},
     {"ErrTokenInvalidClaims", "ErrInvalidType"}}

AudClaims ==
    {Absent, Num, [k |-> "badlist", v |-> <<>>],
     Str(TokenAudience), Str("other"),
     [k |-> "list", v |-> <<>>],
     [k |-> "list", v |-> <<"other">>],
     [k |-> "list", v |-> <<"other", TokenAudience>>],
     [k |-> "list", v |-> <<TokenAudience, "other">>]}

IssClaims ==
    {Absent, Num, Str(Issuer), Str(<<"x">> \o Issuer \o <<"y">>), Str(<<"i">>), Str(<<>>)}

SubClaims == {Absent, Num, Str(<<>>), Str(AppC), Str(UserA)}

ScopeClaims ==
    {Absent, Num, Str(<<>>), Str(<<"r">>), Str(<<"r", " ", "w">>),
     Str(<<"r", " ", " ", "w">>), Str(<<"r", "\t", "w">>), Str(<<" ", "r">>)}

Algs == {"RS256", "RS512", "ES256"}

\* the parsed tokens paired with the headers other than GoodHeader
FewParseResults ==
    {Rejected({"ErrTokenMalformed"}),
     Verified(Str(TokenAudience), Str(Issuer), Str(AppC), Str(<<"r">>), "RS256")}

Arns == {"arn:1", "arn:2"}

\* getToken returns a token for req
Extracts(req) == ~getToken(req).panic /\ getToken(req).err = "nil"

\* an invocation that does not reach getUserPermissions: any request of
\* the model, and for its token any answer of jwt.Parse
ValidationCall(p) ==
    /\ ~Crashed
    /\ inv[p].pc = "idle"
    /\ \E type \in {"TOKEN", "REQUEST"}, header \in Headers, arn \in Arns :
         \/ /\ ~Extracts(Request(type, header, arn))
            /\ HandlerRun(p, Request(type, header, arn), NotParsed)
         \/ /\ Extracts(Request(type, header, arn))
            /\ header # GoodHeader
            /\ \E parsed \in FewParseResults :
                    HandlerRun(p, Request(type, header, arn), parsed)
         \/ /\ Extracts(Request(type, header, arn))
            /\ header = GoodHeader
            /\ \E e \in ParseErrors :
                    HandlerRun(p, Request(type, header, arn), Rejected(e))
         \/ /\ Extracts(Request(type, header, arn))
            /\ header = GoodHeader
            /\ \E aud \in AudClaims, iss \in IssClaims, sub \in SubClaims,
                  scope \in ScopeClaims, alg \in Algs :
                    /\ HandlerDecide(Request(type, header, arn),
                                     Verified(aud, iss, sub, scope, alg)).kind # "resolve"
                    /\ HandlerRun(p, Request(type, header, arn),
                                  Verified(aud, iss, sub, scope, alg))

NextValidation ==
    \/ ValidationCall("p1")
    \/ Finish("p1")

SpecValidation == Init /\ [][NextValidation]_vars

(***************************************************************************)
(* Properties.                                                             *)
(***************************************************************************)
\* invocation p has ended: Handler returned a response, or panicked
Ended(p) == inv[p].pc \in {"done", "panic"}
Returned(p) == inv[p].pc = "done"

\* getToken handed the request's token to jwt.Parse
TokenExtracted(p) ==
    /\ ~getToken(inv[p].req[1]).panic
    /\ getToken(inv[p].req[1]).err = "nil"

\* jwt.Parse verified the token of invocation p
TokenVerified(p) == TokenExtracted(p) /\ inv[p].parsed[1].err = {}

\* the aud claim holds the configured audience among its values
AudHas(aud) ==
    \/ aud.k = "str" /\ aud.v[1] = TokenAudience
    \/ aud.k = "list" /\ \E i \in 1..Len(aud.v) : aud.v[i] = TokenAudience

\* the token of invocation p passes every check of Handler
PassesValidation(p) ==
    /\ TokenVerified(p)
    /\ inv[p].parsed[1].valid
    /\ inv[p].parsed[1].alg \in {"RS256", "RS384", "RS512"}
    /\ AudHas(inv[p].parsed[1].aud)
    /\ inv[p].parsed[1].iss.k = "str" /\ Contains(inv[p].parsed[1].iss.v[1], Issuer)
    /\ inv[p].parsed[1].sub.k = "str"
    /\ inv[p].parsed[1].scope.k = "str"

AppType(p) == ~Contains(inv[p].parsed[1].sub.v[1], UserMarker)

\* s with every space replaced by a comma
SpacesToCommas(s) == [i \in 1..Len(s) |-> IF s[i] = " " THEN "," ELSE s[i]]

ErrorMessageOf(p) == inv[p].resp[1].Context.ErrorMessage

\* invocation p returned Deny with an empty principal and this message
DeniedAnonymously(p, message) ==
    /\ Returned(p)
    /\ Effect(inv[p].resp[1]) = "Deny"
    /\ inv[p].resp[1].PrincipalID = <<>>
    /\ ErrorMessageOf(p) = message

\* C1, as claimed: a token that passes every check and whose sub lacks the
\* user-store marker yields Allow with principalId = sub, requesterId = sub
\* and permissions = the scope split on white space, joined by commas.
C1_SplitOnWhitespace ==
    \A p \in Procs :
        (Ended(p) /\ PassesValidation(p) /\ AppType(p)) =>
            /\ Returned(p)
            /\ Effect(inv[p].resp[1]) = "Allow"
            /\ inv[p].resp[1].PrincipalID = inv[p].parsed[1].sub.v[1]
            /\ inv[p].resp[1].Context.requesterId = inv[p].parsed[1].sub.v[1]
            /\ inv[p].resp[1].Context.permissions = Join(Fields(inv[p].parsed[1].scope.v[1]), ",")

\* C1, amended: a token that passes every check and whose sub lacks the
\* user-store marker yields Allow with principalId = sub, requesterId = sub
\* and permissions = the scope split at every single space character and
\* joined by commas, which is the scope with each space replaced by a comma.
C1_AppTokenAllowed ==
    \A p \in Procs :
        (Ended(p) /\ PassesValidation(p) /\ AppType(p)) =>
            /\ Returned(p)
            /\ Effect(inv[p].resp[1]) = "Allow"
            /\ inv[p].resp[1].PrincipalID = inv[p].parsed[1].sub.v[1]
            /\ inv[p].resp[1].Context.requesterId = inv[p].parsed[1].sub.v[1]
            /\ inv[p].resp[1].Context.permissions = SpacesToCommas(inv[p].parsed[1].scope.v[1])

\* an app token whose scope holds two spaces in a row has been allowed
C1_Witness ==
    \E p \in Procs :
        /\ Returned(p) /\ PassesValidation(p) /\ AppType(p)
        /\ inv[p].parsed[1].scope.v[1] = <<"r", " ", " ", "w">>
        /\ Effect(inv[p].resp[1]) = "Allow"
        /\ inv[p].resp[1].Context.permissions = <<"r", ",", ",", "w">>

\* C2, as claimed: whatever the request and the claims of its token, Handler
\* ends by returning a response whose effect is Allow or Deny; it never aborts.
C2_NeverAborts ==
    \A p \in Procs :
        Ended(p) => (Returned(p) /\ Effect(inv[p].resp[1]) \in {"Allow", "Deny"})

\* t is strictly earlier than u
Before(t, u) == t.sec < u.sec \/ (t.sec = u.sec /\ t.nsec < u.nsec)

\* getUserPermissions of invocation p has returned
Resolved(p) == inv[p].pc \in {"resolved", "done"} /\ ~inv[p].isAppToken

\* TryGet handed invocation p an entry whose expiration was later than the
\* clock when getUserPermissions looked at it
FoundUsable(p) ==
    /\ Len(inv[p].authCache) > 0
    /\ Before(inv[p].checkedAt[1], inv[p].authCache[1].Expiration)

\* what getUserPermissions returned is the entry TryGet handed it
ServedFromEntry(p) ==
    inv[p].served = [permissions |-> Join(inv[p].authCache[1].Permissions, ","),
                     err |-> "nil"]

\* what getUserPermissions returned is the answer of the one upstream call:
\* the names it listed, or its error and no permissions
ServedFromFetch(p) ==
    /\ inv[p].upstreamCalls = 1
    /\ IF Len(fetch[p].value) > 0
       THEN inv[p].served = [permissions |-> Join(fetch[p].permissionsArray, ","),
                             err |-> "nil"]
       ELSE inv[p].served.permissions = <<>> /\ inv[p].served.err \in UpstreamErrors

\* C3: a resolution of a user-type subject calls the upstream endpoint only
\* when TryGet found no entry with expiration > now.  A usable entry of the
\* ephemeral tier is returned with no upstream call and no read of the
\* durable tier; a usable entry of the durable tier is returned with no
\* upstream call; with no entry or an expired one the fetch is dispatched,
\* the upstream endpoint is called once, and only its answer is returned.
C3_UpstreamOnlyOnMiss ==
    \A p \in Procs :
        Resolved(p) =>
            /\ inv[p].upstreamCalls > 0 => ~FoundUsable(p)
            /\ (FoundUsable(p) /\ inv[p].tier = "ephemeral") =>
                    /\ ServedFromEntry(p)
                    /\ inv[p].upstreamCalls = 0
                    /\ inv[p].durableReads = 0
            /\ (FoundUsable(p) /\ inv[p].tier = "durable") =>
                    /\ ServedFromEntry(p)
                    /\ inv[p].upstreamCalls = 0
            /\ ~FoundUsable(p) =>
                    /\ inv[p].dispatched
                    /\ ServedFromFetch(p)

\* a resolution found an expired entry, called upstream once and returned
\* the fetched names, which differ from the expired entry's
C3_Witness ==
    \E p \in Procs :
        /\ inv[p].pc = "done"
        /\ ~inv[p].isAppToken
        /\ Len(inv[p].authCache) > 0
        /\ ~FoundUsable(p)
        /\ inv[p].upstreamCalls = 1
        /\ Len(fetch[p].value) > 0
        /\ fetch[p].permissionsArray # inv[p].authCache[1].Permissions
        /\ Effect(inv[p].resp[1]) = "Allow"
        /\ inv[p].resp[1].Context.permissions = Join(fetch[p].permissionsArray, ",")

\* TryGet found nothing for the subject of invocation p, and the upstream
\* fetch of p succeeded
FetchedOnMiss(p) ==
    /\ Resolved(p)
    /\ Len(inv[p].authCache) = 0
    /\ Len(fetch[p].value) > 0

\* invocation p resolves a subject for which an earlier invocation of this
\* execution environment fetched and returned, and p looked at the cache
\* before the expiration that invocation set
SecondResolution(p) ==
    /\ Resolved(p)
    /\ inv[p].principalId \in DOMAIN returned
    /\ Before(inv[p].checkedAt[1], returned[inv[p].principalId].Expiration)

WroteValue(p, s, v) ==
    /\ Len(fetch[p].value) > 0
    /\ inv[p].principalId = s
    /\ fetch[p].value[1] = v

\* t cut down to a whole multiple of 100 ns
Truncated(t) == Instant(t.sec, t.nsec - (t.nsec % 100))

\* the durable item is the record of the value execution p handed to TryPut
WroteItem(p, s, item) ==
    /\ Len(fetch[p].value) > 0
    /\ inv[p].principalId = s
    /\ item.Permissions = fetch[p].value[1].Permissions
    /\ ParseTimestamp(item.Expiration) = Truncated(fetch[p].value[1].Expiration)

\* every entry of either tier is the whole pair one execution wrote
EntriesWhole ==
    /\ \A s \in DOMAIN cacheMap : \E p \in Procs : WroteValue(p, s, cacheMap[s])
    /\ \A s \in DOMAIN table : \E p \in Procs : WroteItem(p, s, table[s])

\* this step completes TryPut of execution p after TryPut of execution q,
\* for the same subject, has completed
CompletesLast(p, q) ==
    /\ p # q
    /\ fetch[p].pc = "putitem" /\ fetch'[p].pc = "done"
    /\ fetch[q].pc = "done" /\ Len(fetch[q].value) > 0
    /\ inv[q].principalId = inv[p].principalId

\* C5, as claimed: whatever the interleaving of two concurrent fetch-and-cache
\* executions for one subject, every entry seen in either tier is the whole
\* {permissions, expiration} pair one of the two wrote, and once both have
\* completed the ephemeral tier holds the entry of the TryPut that completed
\* last.
C5_ConcurrentPuts ==
    [][/\ EntriesWhole'
       /\ \A p, q \in Procs :
            CompletesLast(p, q) =>
                cacheMap'[inv[p].principalId] = fetch[p].value[1]]_vars

\* this step is a TryGet of invocation p answered from the durable tier,
\* which holds the value of the last TryPut that succeeded for p's subject,
\* at an instant earlier than that value's Expiration
DurableAnswer(p) ==
    /\ inv[p].pc = "getitem"
    /\ inv'[p].pc = "check"
    /\ inv'[p].tier = "durable"
    /\ inv[p].principalId \in DOMAIN putLog
    /\ Before(now, putLog[inv[p].principalId].Expiration)

\* C6, as claimed: a TryPut(s, v) that succeeded, followed by a TryGet(s)
\* answered from the durable tier before v.Expiration, returns the
\* permission list of v and an expiration that is still fresh.
C6_RoundTripFresh ==
    [][\A p \in Procs :
         DurableAnswer(p) =>
            /\ inv'[p].authCache[1].Permissions = putLog[inv[p].principalId].Permissions
            /\ Before(now, inv'[p].authCache[1].Expiration)]_vars

\* C6, amended: a TryPut(s, v) that succeeded, followed by a TryGet(s)
\* answered from the durable tier before v.Expiration, returns the
\* permission list of v and v.Expiration cut down to a whole multiple of
\* 100 ns, the precision of the timestamp string: the returned expiration is
\* still fresh when the read is earlier than that cut-down instant.
C6_RoundTripTruncated ==
    [][\A p \in Procs :
         DurableAnswer(p) =>
            LET v == putLog[inv[p].principalId]
                got == inv'[p].authCache[1]
            IN  /\ got.Permissions = v.Permissions
                /\ got.Expiration = Truncated(v.Expiration)
                /\ Before(now, Truncated(v.Expiration)) => Before(now, got.Expiration)]_vars

\* a TryGet has been answered from the durable tier with the permissions
\* that were put and with an expiration earlier than the one that was put,
\* and still later than the clock
C6_Witness ==
    \E p \in Procs :
        /\ inv[p].pc = "check"
        /\ inv[p].tier = "durable"
        /\ inv[p].principalId \in DOMAIN putLog
        /\ inv[p].authCache[1].Permissions = putLog[inv[p].principalId].Permissions
        /\ Before(inv[p].authCache[1].Expiration, putLog[inv[p].principalId].Expiration)
        /\ Before(now, inv[p].authCache[1].Expiration)

\* the header is the literal "Bearer", one space and a non-empty value
WellFormedHeader(h) ==
    /\ Len(h) > Len(BearerSpace)
    /\ SubSeq(h, 1, Len(BearerSpace)) = BearerSpace

\* the whole remainder of the header after "Bearer "
HeaderRemainder(h) == SubSeq(h, Len(BearerSpace) + 1, Len(h))

\* C7, as claimed: on a TOKEN request with a non-empty header, getToken
\* succeeds exactly when the header is "Bearer", one space and a non-empty
\* value, and then returns the whole remainder; every other header fails as
\* malformed and Handler answers Deny with an empty principal.
C7_BearerPattern ==
    \A p \in Procs :
        (Ended(p) /\ inv[p].req[1].Type = "TOKEN" /\ Len(inv[p].req[1].AuthorizationToken) > 0) =>
            LET h == inv[p].req[1].AuthorizationToken
                got == getToken(inv[p].req[1])
            IN  IF WellFormedHeader(h)
                THEN ~got.panic /\ got.err = "nil" /\ got.token = HeaderRemainder(h)
                ELSE /\ ~got.panic /\ got.err = ErrMatchText
                     /\ Returned(p)
                     /\ Effect(inv[p].resp[1]) = "Deny"
                     /\ inv[p].resp[1].PrincipalID = <<>>

\* the request of invocation p has the wrong type, no token, or a token that
\* is not "Bearer", one space and a non-empty value
BadRequestShape(p) ==
    \/ inv[p].req[1].Type # "TOKEN"
    \/ Len(inv[p].req[1].AuthorizationToken) = 0
    \/ ~WellFormedHeader(inv[p].req[1].AuthorizationToken)

\* C8, as claimed: a request of another type than TOKEN, with an empty
\* token or with a malformed header yields Deny on its methodArn with an
\* empty principal and the message "Unauthorized".
C8_RequestShapeDenied ==
    \A p \in Procs :
        (Ended(p) /\ BadRequestShape(p)) =>
            /\ DeniedAnonymously(p, "Unauthorized")
            /\ inv[p].resp[1].PolicyDocument.Statement[1].Resource = <<inv[p].req[1].MethodArn>>

\* jwt.Parse found the token of invocation p well formed and correctly
\* signed, and its temporal claims not satisfied
TemporalFailure(p) ==
    /\ TokenExtracted(p)
    /\ "ErrTokenMalformed" \notin inv[p].parsed[1].err
    /\ "ErrTokenSignatureInvalid" \notin inv[p].parsed[1].err
    /\ inv[p].parsed[1].err \cap {"ErrTokenExpired", "ErrTokenNotValidYet"} # {}

\* C9, as claimed: an expired token is denied with the expiration message,
\* and a token that is only not yet valid is denied under a classification
\* of its own, not as expired.
C9_TemporalClassified ==
    \A p \in Procs :
        (Ended(p) /\ TemporalFailure(p)) =>
            /\ Returned(p)
            /\ Effect(inv[p].resp[1]) = "Deny"
            /\ inv[p].resp[1].PrincipalID = <<>>
            /\ "ErrTokenExpired" \in inv[p].parsed[1].err =>
                    ErrorMessageOf(p) = "Unauthorized: Expired Token"
            /\ "ErrTokenExpired" \notin inv[p].parsed[1].err =>
                    ErrorMessageOf(p) # "Unauthorized: Expired Token"

\* C9, amended: a correctly signed token whose exp is in the past, or whose
\* nbf is in the future, is denied with an empty principal and the one
\* message "Unauthorized: Expired Token"; the two are not told apart.
C9_TemporalDenied ==
    \A p \in Procs :
        (Ended(p) /\ TemporalFailure(p)) =>
            DeniedAnonymously(p, "Unauthorized: Expired Token")

\* a token that is not yet valid, and not expired, has been denied as expired
C9_Witness ==
    \E p \in Procs :
        /\ Returned(p) /\ TemporalFailure(p)
        /\ "ErrTokenExpired" \notin inv[p].parsed[1].err
        /\ DeniedAnonymously(p, "Unauthorized: Expired Token")

AudienceMessages ==
    {"Unauthorized: Token 'aud' claim missing registered audience",
     "Unauthorized: Token missing 'aud' claim or claim is invalid"}

\* C10: a verified token whose aud claim is missing, wrongly shaped or
\* without the configured audience is denied with an audience message, and
\* one whose aud has the configured audience among its values gets past the
\* audience check: no audience message is returned for it.
C10_AudienceChecked ==
    \A p \in Procs :
        (Ended(p) /\ TokenVerified(p)) =>
            IF AudHas(inv[p].parsed[1].aud)
            THEN Returned(p) =>
                    \/ Effect(inv[p].resp[1]) = "Allow"
                    \/ ErrorMessageOf(p) \notin AudienceMessages
            ELSE /\ Returned(p)
                 /\ Effect(inv[p].resp[1]) = "Deny"
                 /\ ErrorMessageOf(p) \in AudienceMessages

\* a token that lists the configured audience second has been allowed, and
\* one without an aud claim would be denied at the audience check
C10_Witness ==
    \E p \in Procs :
        /\ Returned(p) /\ TokenVerified(p)
        /\ inv[p].parsed[1].aud = [k |-> "list", v |-> <<"other", TokenAudience>>]
        /\ Effect(inv[p].resp[1]) = "Allow"

\* C11: every response Handler returns has a policy document of version
\* "2012-10-17" with exactly one statement, whose action is
\* ["execute-api:Invoke"], whose effect is Allow or Deny and whose resource
\* is [the request's methodArn]; the context of an Allow holds requesterId
\* and the comma-joined permissions and nothing else, the context of a Deny
\* holds ErrorMessage and nothing else.
C11_ResponseShape ==
    \A p \in Procs :
        Returned(p) =>
            LET r == inv[p].resp[1]
                doc == r.PolicyDocument
            IN  /\ DOMAIN r = {"PrincipalID", "PolicyDocument", "Context"}
                /\ doc.Version = "2012-10-17"
                /\ Len(doc.Statement) = 1
                /\ doc.Statement[1].Action = <<"execute-api:Invoke">>
                /\ doc.Statement[1].Effect \in {"Allow", "Deny"}
                /\ doc.Statement[1].Resource = <<inv[p].req[1].MethodArn>>
                /\ doc.Statement[1].Effect = "Allow" =>
                        DOMAIN r.Context = {"requesterId", "permissions"}
                /\ doc.Statement[1].Effect = "Deny" =>
                        DOMAIN r.Context = {"ErrorMessage"}

\* a user-type request has been answered Allow with the two context entries
C11_Witness ==
    \E p \in Procs :
        /\ Returned(p)
        /\ ~inv[p].isAppToken
        /\ Effect(inv[p].resp[1]) = "Allow"
        /\ DOMAIN inv[p].resp[1].Context = {"requesterId", "permissions"}
        /\ inv[p].resp[1].Context.requesterId = UserA
        /\ inv[p].resp[1].PolicyDocument.Statement[1].Resource = <<"arn:1">>

\* C12, as claimed: when the client-credentials exchange of the cold start
\* fails, initialization is fatal, so no request is ever being handled, or
\* has been handled, in an environment whose credential slot is empty.
C12_ColdStartFatal ==
    cachedToken = None => \A p \in Procs : inv[p].pc = "idle"

\* C13, as claimed: when the read of the durable tier fails while a
\* user-type subject without a fresh ephemeral entry is resolved, the
\* request ends in Deny and the ErrorMessage is the error of the store.
C13_ReadFailureDenied ==
    \A p \in Procs :
        (Returned(p) /\ ~inv[p].isAppToken /\ inv[p].tryGetErr # "nil") =>
            /\ Effect(inv[p].resp[1]) = "Deny"
            /\ ErrorMessageOf(p) = inv[p].tryGetErr

\* C14: when the upstream permissions call fails (transport error, status
\* other than 200, or a body that does not decode), which happens only
\* when no fresh cache entry was found, the resolution fails with that
\* error and Handler returns Deny with the subject as principalId and the
\* text of the upstream error as ErrorMessage.
C14_UpstreamFailureDenied ==
    \A p \in Procs :
        (Resolved(p) /\ fetch[p].err # "nil") =>
            /\ ~FoundUsable(p)
            /\ inv[p].served = [permissions |-> <<>>, err |-> fetch[p].err]
            /\ Returned(p) =>
                    /\ Effect(inv[p].resp[1]) = "Deny"
                    /\ inv[p].resp[1].PrincipalID = inv[p].parsed[1].sub.v[1]
                    /\ ErrorMessageOf(p) = fetch[p].err

\* the upstream answered 500 and the request of subject "auth0|a" was denied
\* with that error
C14_Witness ==
    \E p \in Procs :
        /\ Returned(p)
        /\ fetch[p].err = "error retrieving user permissions: 500"
        /\ Effect(inv[p].resp[1]) = "Deny"
        /\ inv[p].resp[1].PrincipalID = UserA
        /\ ErrorMessageOf(p) = "error retrieving user permissions: 500"

\* C15: when the upstream fetch succeeds and the write of the durable tier
\* fails, PutItem has been called once and is not called again, the fetch
\* still delivers the names, and the request returns Allow with the fetched
\* permissions.
C15_WriteFailureIgnored ==
    \A p \in Procs :
        fetch[p].putErr # "nil" =>
            /\ fetch[p].puts = 1
            /\ fetch[p].pc = "done"
            /\ fetch[p].err = "nil"
            /\ fetch[p].sends = 1
            /\ Len(chans[p].errChan) = 0
            /\ Resolved(p) =>
                    inv[p].served = [permissions |-> Join(fetch[p].permissionsArray, ","),
                                     err |-> "nil"]
            /\ Returned(p) =>
                    /\ Effect(inv[p].resp[1]) = "Allow"
                    /\ inv[p].resp[1].Context.permissions =
                            Join(fetch[p].permissionsArray, ",")

\* a request whose PutItem failed has been answered Allow with the two
\* fetched names, and the durable tier holds nothing for its subject
C15_Witness ==
    \E p \in Procs :
        /\ Returned(p)
        /\ fetch[p].putErr # "nil"
        /\ inv[p].principalId \notin DOMAIN table
        /\ Effect(inv[p].resp[1]) = "Allow"
        /\ inv[p].resp[1].Context.permissions = <<"w", ",", "r">>

\* this step is the re-check of invocation p, made after its fetch was
\* dispatched, while the ephemeral tier holds for p's subject an entry with
\* expiration > now, written since p's first lookup by another resolution
\* (p's own fetch has not reached its write)
RecheckWithFreshEntry(p) ==
    /\ inv[p].pc = "recheck"
    /\ fetch[p].pc \in {"http", "put", "mapwrite"}
    /\ inv'[p].pc \in {"resolved", "wait"}
    /\ inv[p].principalId \in DOMAIN cacheMap
    /\ Before(now, cacheMap[inv[p].principalId].Expiration)

\* C16, as claimed: after dispatching the fetch and before waiting on it
\* the resolver reads the cache again, and when a concurrent resolution has
\* written an entry with expiration > now for the subject since the first
\* lookup, it returns that entry at once, without waiting for its own fetch.
C16_RecheckRereads ==
    [][\A p \in Procs :
         RecheckWithFreshEntry(p) =>
            /\ inv'[p].pc = "resolved"
            /\ inv'[p].served =
                    [permissions |-> Join(cacheMap[inv[p].principalId].Permissions, ","),
                     err |-> "nil"]]_vars

\* the verified token of invocation p passes the audience check and the
\* checks of token.Valid and of the signing method that precede the
\* issuer check
ReachesIssuerCheck(p) ==
    /\ TokenVerified(p)
    /\ AudHas(inv[p].parsed[1].aud)
    /\ inv[p].parsed[1].valid
    /\ inv[p].parsed[1].alg \in {"RS256", "RS384", "RS512"}

\* the iss claim is a string that contains the configured issuer
IssuerMatches(iss) == iss.k = "str" /\ Contains(iss.v[1], Issuer)

\* C17, as claimed: a verified token that passes the audience check and
\* whose iss claim is absent, is not a string, or does not contain the
\* configured issuer yields Deny with the issuer-mismatch message; a token
\* whose iss contains the configured issuer is not denied for its issuer.
C17_IssuerChecked ==
    \A p \in Procs :
        (Ended(p) /\ ReachesIssuerCheck(p)) =>
            IF IssuerMatches(inv[p].parsed[1].iss)
            THEN Returned(p) =>
                    \/ Effect(inv[p].resp[1]) = "Allow"
                    \/ ErrorMessageOf(p) # MsgIss
            ELSE /\ Returned(p)
                 /\ Effect(inv[p].resp[1]) = "Deny"
                 /\ ErrorMessageOf(p) = MsgIss

\* the claim is a string of at least one character
NonEmptyString(claim) == claim.k = "str" /\ claim.v[1] # <<>>

\* C18, as claimed: no Allow is issued for a token whose sub claim is
\* absent or empty or whose scope claim is absent or empty; every Allow
\* has a non-empty principalId and comes from a non-empty scope claim.
C18_NoAllowWithoutSubjectOrScope ==
    \A p \in Procs :
        (Returned(p) /\ Effect(inv[p].resp[1]) = "Allow") =>
            /\ NonEmptyString(inv[p].parsed[1].sub)
            /\ NonEmptyString(inv[p].parsed[1].scope)
            /\ inv[p].resp[1].PrincipalID # <<>>

\* the goroutine of invocation p got the names from the upstream and has
\* come to its end
FetchSucceeded(p) == fetch[p].pc = "done" /\ fetch[p].err = "nil"

\* C19, as claimed: after a successful upstream fetch both tiers hold for
\* the subject exactly {the names of the upstream response, the time of
\* the write + 900 s}.
C19_BothTiersReplaced ==
    \A p \in Procs :
        FetchSucceeded(p) =>
            /\ inv[p].principalId \in DOMAIN cacheMap
            /\ cacheMap[inv[p].principalId] = fetch[p].value[1]
            /\ inv[p].principalId \in DOMAIN table
            /\ UnmarshalItem(table[inv[p].principalId]) = fetch[p].value[1]

\* C19, amended: the value is {the names of the upstream response,
\* time.Now() + 900 s} with the clock read when the value is built; the
\* map write replaces the ephemeral entry by exactly that value; PutItem,
\* when it succeeds, replaces the durable item by exactly those names and
\* that expiration cut to 100 ns, and when it fails leaves the table as
\* it was.  Nothing of a previous entry survives a replacement.
C19_ReplacedWholesale ==
    [][\A p \in Procs :
         /\ (fetch[p].pc = "put" /\ fetch'[p].pc = "mapwrite") =>
                fetch'[p].value =
                    <<AuthCacheValue(fetch[p].permissionsArray, Expiry(now))>>
         /\ (fetch[p].pc = "mapwrite" /\ fetch'[p].pc = "putitem") =>
                /\ inv[p].principalId \in DOMAIN cacheMap'
                /\ cacheMap'[inv[p].principalId] =
                       AuthCacheValue(fetch[p].permissionsArray,
                                      fetch[p].value[1].Expiration)
         /\ (fetch[p].pc = "putitem" /\ fetch'[p].pc = "done") =>
                IF fetch'[p].putErr = "nil"
                THEN /\ inv[p].principalId \in DOMAIN table'
                     /\ UnmarshalItem(table'[inv[p].principalId]) =
                            AuthCacheValue(fetch[p].permissionsArray,
                                           Truncated(fetch[p].value[1].Expiration))
                ELSE table' = table]_vars

\* a second fetch for a subject has replaced, in both tiers, the entry an
\* earlier invocation wrote with a name the upstream no longer returns
C19_Witness ==
    \E p \in Procs :
        /\ FetchSucceeded(p) /\ fetch[p].putErr = "nil"
        /\ inv[p].principalId \in DOMAIN returned
        /\ \E i \in 1..Len(returned[inv[p].principalId].Permissions) :
              \A j \in 1..Len(fetch[p].permissionsArray) :
                  returned[inv[p].principalId].Permissions[i] # fetch[p].permissionsArray[j]
        /\ inv[p].principalId \in DOMAIN putLog
        /\ cacheMap[inv[p].principalId].Permissions = fetch[p].permissionsArray
        /\ table[inv[p].principalId].Permissions = fetch[p].permissionsArray

\* the goroutine of invocation p has come to its end
FetchFinished(p) == fetch[p].pc = "done"

\* the goroutine of invocation p hands over one outcome on one channel:
\* before its send both channels are empty, so the send finds room; at its
\* end it has sent once, to errChan when the call failed and to
\* permissionsChan otherwise, and nothing is left in a channel once the
\* select has received
OneOutcome(p) ==
    /\ Len(chans[p].permissionsChan) + Len(chans[p].errChan) <= ChanCap
    /\ fetch[p].pc \in {"http", "put", "mapwrite", "putitem"} =>
            (chans[p].permissionsChan = <<>> /\ chans[p].errChan = <<>>)
    /\ FetchFinished(p) =>
            /\ fetch[p].sends = 1
            /\ inv[p].pc \in {"recheck", "wait"} =>
                  IF fetch[p].err = "nil"
                  THEN /\ chans[p].permissionsChan = <<fetch[p].permissionsArray>>
                       /\ chans[p].errChan = <<>>
                  ELSE /\ chans[p].permissionsChan = <<>>
                       /\ chans[p].errChan = <<fetch[p].err>>
            /\ Resolved(p) =>
                  /\ chans[p].permissionsChan = <<>> /\ chans[p].errChan = <<>>
                  /\ inv[p].served =
                        IF fetch[p].err = "nil"
                        THEN [permissions |-> Join(fetch[p].permissionsArray, ","),
                              err |-> "nil"]
                        ELSE [permissions |-> <<>>, err |-> fetch[p].err]

\* C20: with the handler scheduled fairly, once the fetch a user-type
\* request dispatched has finished, with the names or with an error,
\* Handler returns a response; each fetch sends exactly one outcome on
\* exactly one of its two channels, the send finds room in the channel
\* whether or not the handler is waiting, and the handler resolves on the
\* outcome that was sent.
C20_FetchEndsThenReturns ==
    /\ [](\A p \in Procs : OneOutcome(p))
    /\ \A p \in Procs : FetchFinished(p) ~> Returned(p)

\* a request whose fetch failed at the durable write has returned after
\* receiving the single outcome the fetch sent
C20_Witness ==
    \E p \in Procs :
        /\ Returned(p) /\ inv[p].dispatched
        /\ FetchFinished(p) /\ fetch[p].sends = 1
        /\ fetch[p].putErr # "nil"
        /\ chans[p] = EmptyChans

\* invocation p carries a verified token whose sub is a string without the
\* user-store marker
AppTypeRequest(p) ==
    /\ Len(inv[p].parsed) > 0
    /\ inv[p].parsed[1].err = {}
    /\ inv[p].parsed[1].sub.k = "str"
    /\ AppType(p)

\* C21: handling an app-type token reads no cache tier, writes no cache
\* tier and makes no upstream call, whatever the outcome: from the call to
\* the return both tiers stay as they were, TryGet is not entered, no
\* fetch is dispatched and no upstream call is counted.
C21_AppTokenTouchesNothing ==
    [][\A p \in Procs :
         AppTypeRequest(p)' =>
            /\ cacheMap' = cacheMap
            /\ table' = table
            /\ putLog' = putLog
            /\ inv'[p].pc \in {"done", "panic"}
            /\ inv'[p].tier = None
            /\ inv'[p].authCache = Nil
            /\ inv'[p].durableReads = 0
            /\ inv'[p].upstreamCalls = 0
            /\ ~inv'[p].dispatched
            /\ fetch'[p] = IdleFetch
            /\ chans'[p] = EmptyChans]_vars

\* an app-type request has been allowed while both tiers held an entry
C21_Witness ==
    \E p \in Procs :
        /\ AppTypeRequest(p) /\ Returned(p)
        /\ Effect(inv[p].resp[1]) = "Allow"
        /\ DOMAIN cacheMap # {} /\ DOMAIN table # {}

\* an app-type request without a scope has been denied while both tiers
\* held an entry
C21_WitnessDenied ==
    \E p \in Procs :
        /\ AppTypeRequest(p) /\ Returned(p)
        /\ Effect(inv[p].resp[1]) = "Deny"
        /\ DOMAIN cacheMap # {} /\ DOMAIN table # {}

\* the goroutine of invocation p has ended with an error of the upstream call
FetchFailed(p) == fetch[p].pc = "done" /\ fetch[p].err # "nil"

\* invocation q resolves the subject of invocation p, which has returned
\* after its fetch failed, and q has found no entry with expiration > now
ResolvesAfterFailure(q, p) ==
    /\ Returned(p) /\ FetchFailed(p)
    /\ ~inv[q].isAppToken
    /\ inv[q].principalId = inv[p].principalId
    /\ inv[q].pc \in {"recheck", "wait", "resolved", "done"}
    /\ ~FoundUsable(q)

\* C22: a fetch that fails builds no value and calls TryPut not at all, and
\* the step in which it fails leaves both tiers as they were; the
\* resolution of the same subject that follows and finds no entry with
\* expiration > now dispatches a fetch of its own, and what it returns is
\* the outcome of that fetch, not the earlier failure.
C22_FailureLeavesNoTrace ==
    /\ [](\A p \in Procs : FetchFailed(p) => (fetch[p].value = <<>> /\ fetch[p].puts = 0))
    /\ [][\A p \in Procs :
            (fetch[p].pc = "http" /\ fetch'[p].pc = "done") =>
                (cacheMap' = cacheMap /\ table' = table /\ putLog' = putLog)]_vars
    /\ [](ResolvesAfterFailure("p2", "p1") =>
            /\ inv["p2"].dispatched
            /\ fetch["p2"].pc # "none"
            /\ Resolved("p2") =>
                  (inv["p2"].upstreamCalls = 1 /\ ServedFromFetch("p2")))

\* after a failed fetch left the expired entry of the subject in both
\* tiers, the next request for the subject has fetched again and has been
\* allowed with the names of its own fetch
C22_Witness ==
    /\ ResolvesAfterFailure("p2", "p1")
    /\ Returned("p2")
    /\ Effect(inv["p2"].resp[1]) = "Allow"
    /\ inv["p2"].upstreamCalls = 1
    /\ Len(inv["p2"].authCache) > 0
    /\ inv["p2"].principalId \in DOMAIN table

\* a goroutine is inside TryPut for subject s
WriteInProgress(s) ==
    \E p \in Procs :
        /\ fetch[p].pc \in {"mapwrite", "putitem"}
        /\ inv[p].principalId = s

\* C23, as claimed: whenever no TryPut for a subject is in progress and
\* both tiers hold an entry for it, the ephemeral entry and the durable
\* record carry the same permissions and the same expiration, also after
\* a TryPut whose durable write failed.
C23_TiersAgree ==
    \A s \in DOMAIN cacheMap \cap DOMAIN table :
        ~WriteInProgress(s) =>
            /\ cacheMap[s].Permissions = table[s].Permissions
            /\ cacheMap[s].Expiration = ParseTimestamp(table[s].Expiration)

====
